---- MODULE Spec2Model ----
(***************************************************************************)
(* ICBC Central API (src/main.py): the task table, the config table and    *)
(* the request handlers that read and write them.                          *)
(*                                                                         *)
(* The store is modelled as reliable: no SQLAlchemy call raises, so the    *)
(* "except" branches of enroll and report are not taken.  Rows are kept in *)
(* insertion order, which is the order SQLite scans a rowid table in.      *)
(* Timestamps are clock readings 0..MaxTime of datetime.utcnow().          *)
(* Optional[str] values are <<>> (None) or <<s>> (the string s).           *)
(***************************************************************************)
EXTENDS Integers, Sequences, FiniteSets, TLC

VARIABLES
    tasks,      \* table "tasks": the rows in insertion order
    configs,    \* table "configs": the rows in insertion order
    now,        \* the reading datetime.utcnow() gives
    issued,     \* every task_id an enroll response has carried so far
    resp,       \* the response of the request served last
    flight      \* two requests served concurrently on one task, or idle

vars == <<tasks, configs, now, issued, resp, flight>>

----------------------------------------------------------------------------
(* Bounds of the model *)

MaxTasks == 2
MaxTime == 1
MaxConfigs == 2

(* Program constants *)

EnrollProgress == 10
CompletedProgress == 100
LimitCap == 1000
StatusNotFound == 404

----------------------------------------------------------------------------
(* Input domains *)

None == <<>>
Some(v) == <<v>>

Schools == {"s1", "s2"}
Students == {"amy"}
Times == 0..MaxTime

\* TaskUpdateRequest: status is any str and progress any int; the request the
\* model sends names a status outside the four of the column's comment and a
\* progress outside 0-100
UpdateStatuses == {"archived"}
UpdateProgresses == {150}
UpdateMessages == {None, Some(""), Some("manual")}
UpdateRequests ==
    [status : UpdateStatuses, progress : UpdateProgresses, message : UpdateMessages]

\* ReportRequest.slots_found
SlotLists == {<<>>, <<"slot">>}

\* task ids a request may name: every id a row can have and one no row has
TaskIds == 1..(MaxTasks + 1)

\* Python truthiness of an Optional[str]: None and "" are both falsy
Truthy(opt) == opt # None /\ opt[1] # ""

----------------------------------------------------------------------------
(* Conversions *)

\* str(n) inside an f-string
Str(n) == ToString(n)

\* datetime.isoformat()
IsoFormat(t) == "T" \o ToString(t)

\* json.dumps of a dict: the members in insertion order
JsonDumps(keys, dict) == [i \in 1..Len(keys) |-> <<keys[i], dict[keys[i]]>>]

\* json.loads of an object: a dict, a repeated key keeps its last value
JsonLoads(text) ==
    LET Keys == {text[i][1] : i \in 1..Len(text)}
        Last(k) == CHOOSE i \in 1..Len(text) :
                      /\ text[i][1] = k
                      /\ \A j \in (i + 1)..Len(text) : text[j][1] # k
    IN  [k \in Keys |-> text[Last(k)][2]]

\* {**a, **b}: b's keys win
DictMerge(a, b) == b @@ a

----------------------------------------------------------------------------
(* class Task, class EnrollRequest *)

EnrollKeys == <<"school_id", "student", "preferences", "consent_timestamp">>

EnrollRequests ==
    [school_id : Schools, student : Students,
     preferences : {"centre1"}, consent_timestamp : {"c0"}]

\* the message enroll stores, in English
EnrollMessage == "enrollment received"

NewTask(id, req, t) ==
    [id |-> id,
     school_id |-> req.school_id,
     data |-> JsonDumps(EnrollKeys, req),
     created_at |-> t,
     status |-> "pending",
     updated_at |-> t,
     progress |-> EnrollProgress,
     message |-> EnrollMessage]

TaskIdsOf(tbl) == {tbl[i].id : i \in 1..Len(tbl)}

\* Mutant of NextId: hands out the largest rowid again
NextIdReuse(tbl) ==
    IF tbl = <<>> THEN 1
    ELSE CHOOSE m \in TaskIdsOf(tbl) : \A k \in TaskIdsOf(tbl) : k <= m

\* INTEGER PRIMARY KEY: one more than the largest rowid in the table
NextId(tbl) ==
    IF tbl = <<>> THEN 1
    ELSE (CHOOSE m \in TaskIdsOf(tbl) : \A k \in TaskIdsOf(tbl) : k <= m) + 1

\* db.query(Task).filter(Task.id == task_id).first(): the row's position, 0 if none
FindTask(tbl, task_id) ==
    IF \E i \in 1..Len(tbl) : tbl[i].id = task_id
    THEN CHOOSE i \in 1..Len(tbl) :
            /\ tbl[i].id = task_id
            /\ \A j \in 1..(i - 1) : tbl[j].id # task_id
    ELSE 0

Idle == [pc |-> "idle"]

----------------------------------------------------------------------------
(* Row updates of report and update_task_status *)

\* the f-string of report, in English: fixed text around len(req.slots_found)
ReportMessage(n) == "found " \o Str(n) \o " slots"

\* ReportRequest; school_id, detected_at and agent_meta are only echoed back
ReportRequests == [task_id : TaskIds, school_id : {"s1"}, slots_found : SlotLists]

\* Mutant of ReportAssign: forgets to assign progress
ReportAssignKeepsProgress(row, req, t) ==
    [row EXCEPT !.status = "completed",
                !.message = ReportMessage(Len(req.slots_found)),
                !.updated_at = t]

\* report: the attribute values the handler assigns to the loaded row
ReportAssign(row, req, t) ==
    [row EXCEPT !.status = "completed",
                !.progress = CompletedProgress,
                !.message = ReportMessage(Len(req.slots_found)),
                !.updated_at = t]

\* Mutant of UpdateAssign: stamps created_at along with updated_at
UpdateAssignStampsCreated(row, update, t) ==
    [row EXCEPT !.status = update.status,
                !.progress = update.progress,
                !.message = IF Truthy(update.message) THEN update.message[1] ELSE @,
                !.created_at = t,
                !.updated_at = t]

\* update_task_status: the attribute values the handler assigns to the loaded row
UpdateAssign(row, update, t) ==
    [row EXCEPT !.status = update.status,
                !.progress = update.progress,
                !.message = IF Truthy(update.message) THEN update.message[1] ELSE @,
                !.updated_at = t]

\* Mutant of Flush: the UPDATE names every column of the loaded object
FlushAllColumns(stored, loaded, assigned) == assigned

\* db.commit() of a loaded and then assigned row: the session issues
\* UPDATE tasks SET ... WHERE id = ? naming only the columns whose assigned
\* value differs from the loaded one; the others keep what the table holds
Flush(stored, loaded, assigned) ==
    [c \in DOMAIN stored |->
        IF assigned[c] # loaded[c] THEN assigned[c] ELSE stored[c]]

\* the table after the commit of the row at position i
Commit(tbl, i, loaded, assigned) ==
    [tbl EXCEPT ![i] = Flush(tbl[i], loaded, assigned)]


----------------------------------------------------------------------------
Init ==
    /\ tasks = <<>>
    /\ configs = <<>>
    /\ now = 0
    /\ issued = {}
    /\ resp = [op |-> "none"]
    /\ flight = Idle

Tick ==
    /\ now < MaxTime
    /\ now' = now + 1
    /\ UNCHANGED <<tasks, configs, issued, resp, flight>>

Enroll(req) ==
    /\ Len(tasks) < MaxTasks
    /\ LET task == NewTask(NextId(tasks), req, now)
       IN  /\ tasks' = Append(tasks, task)
           /\ issued' = issued \cup {task.id}
           /\ resp' = [op |-> "enroll", req |-> req, code |-> 200,
                       body |-> [status |-> "ok", task_id |-> task.id]]
    /\ UNCHANGED <<configs, now, flight>>

\* get_tasks: one entry of the "tasks" list
TaskEntry(t) ==
    DictMerge([task_id |-> t.id, status |-> t.status, progress |-> t.progress,
               message |-> t.message,
               created_at |-> IsoFormat(t.created_at),
               updated_at |-> IsoFormat(t.updated_at)],
              JsonLoads(t.data))

\* the "since" texts a client may send: "" and the texts of the clock's readings
TimeText(t) == ToString(t)
SinceArgs == {None, Some("")} \cup {Some(TimeText(t)) : t \in Times}
ParseTime(s) == CHOOSE t \in Times : TimeText(t) = s

\* get_tasks: the filters of the query
TaskMatches(t, school_id, since) ==
    /\ t.school_id = school_id
    /\ Truthy(since) => t.created_at >= ParseTime(since[1])

\* get_tasks: q.all(), the matching rows in table order
RECURSIVE TasksQuery(_, _, _)
TasksQuery(tbl, school_id, since) ==
    IF tbl = <<>> THEN <<>>
    ELSE (IF TaskMatches(Head(tbl), school_id, since) THEN <<Head(tbl)>> ELSE <<>>)
         \o TasksQuery(Tail(tbl), school_id, since)

GetTasks(school_id, since) ==
    /\ LET rows == TasksQuery(tasks, school_id, since)
       IN  resp' = [op |-> "get_tasks", school_id |-> school_id, since |-> since,
                    code |-> 200,
                    body |-> [tasks |-> [i \in 1..Len(rows) |-> TaskEntry(rows[i])]]]
    /\ UNCHANGED <<tasks, configs, now, issued, flight>>

\* Mutant of Report: a report for an unknown id inserts a completed task
ReportUpsert(req) ==
    /\ LET i == FindTask(tasks, req.task_id)
       IN  IF i # 0
           THEN tasks' = Commit(tasks, i, tasks[i], ReportAssign(tasks[i], req, now))
           ELSE tasks' = Append(tasks,
                    ReportAssign(NewTask(req.task_id,
                                         CHOOSE e \in EnrollRequests :
                                             e.school_id = req.school_id,
                                         now), req, now))
    /\ resp' = [op |-> "report", req |-> req, code |-> 200,
                body |-> [status |-> "ok", received |-> req]]
    /\ UNCHANGED <<configs, now, issued, flight>>

Report(req) ==
    /\ LET i == FindTask(tasks, req.task_id)
       IN  IF i # 0
           THEN tasks' = Commit(tasks, i, tasks[i], ReportAssign(tasks[i], req, now))
           ELSE tasks' = tasks
    /\ resp' = [op |-> "report", req |-> req, code |-> 200,
                body |-> [status |-> "ok", received |-> req]]
    /\ UNCHANGED <<configs, now, issued, flight>>

\* dict.get(key, default)
DictGet(d, k, default) == IF k \in DOMAIN d THEN d[k] ELSE default

\* Mutant of GetTaskStatus: no "if not task" check, a missing task reads as empty
GetTaskStatusNoCheck(task_id) ==
    /\ LET i == FindTask(tasks, task_id)
       IN  resp' = [op |-> "get_task_status", task_id |-> task_id, code |-> 200,
                    body |-> IF i = 0 THEN [task_id |-> task_id]
                             ELSE [task_id |-> tasks[i].id, status |-> tasks[i].status]]
    /\ UNCHANGED <<tasks, configs, now, issued, flight>>

GetTaskStatus(task_id) ==
    /\ LET i == FindTask(tasks, task_id)
       IN  IF i = 0
           THEN resp' = [op |-> "get_task_status", task_id |-> task_id,
                         code |-> StatusNotFound, body |-> [detail |-> "Task not found"]]
           ELSE LET task == tasks[i]
                    task_data == JsonLoads(task.data)
                IN  resp' = [op |-> "get_task_status", task_id |-> task_id,
                             code |-> 200,
                             body |-> [task_id |-> task.id,
                                       status |-> task.status,
                                       progress |-> task.progress,
                                       message |-> task.message,
                                       created_at |-> IsoFormat(task.created_at),
                                       updated_at |-> IsoFormat(task.updated_at),
                                       school_id |-> task.school_id,
                                       student_info |-> DictGet(task_data, "student", <<>>),
                                       preferences |-> DictGet(task_data, "preferences", <<>>)]]
    /\ UNCHANGED <<tasks, configs, now, issued, flight>>

UpdateTaskStatus(task_id, update) ==
    /\ LET i == FindTask(tasks, task_id)
       IN  IF i = 0
           THEN /\ tasks' = tasks
                /\ resp' = [op |-> "update_task_status", task_id |-> task_id,
                            update |-> update, code |-> StatusNotFound,
                            body |-> [detail |-> "Task not found"]]
           ELSE /\ tasks' = Commit(tasks, i, tasks[i], UpdateAssign(tasks[i], update, now))
                /\ resp' = [op |-> "update_task_status", task_id |-> task_id,
                            update |-> update, code |-> 200,
                            body |-> [status |-> "ok"]]
    /\ UNCHANGED <<configs, now, issued, flight>>

\* get_all_enrollments: the Query(...) bounds a request may or may not respect
PageLimits == {0, 1, LimitCap, LimitCap + 1}
PageOffsets == {-1, 0, 1, MaxTasks}

\* ORDER BY created_at DESC: an order of the row positions, newest first; rows
\* created at the same instant come in an order the database chooses
CreatedDescOrders(tbl) ==
    {p \in [1..Len(tbl) -> 1..Len(tbl)] :
        /\ \A i, j \in 1..Len(tbl) : i # j => p[i] # p[j]
        /\ \A i, j \in 1..Len(tbl) : i < j => tbl[p[i]].created_at >= tbl[p[j]].created_at}

\* Mutant of PagePositions: cuts to the first limit rows, then skips offset of them
PagePositionsLimitFirst(n, limit, offset) ==
    LET last == IF limit > n THEN n ELSE limit
        count == IF last > offset THEN last - offset ELSE 0
    IN  [k \in 1..count |-> offset + k]

\* OFFSET offset LIMIT limit over n ordered rows, limit >= 0: the positions
\* of the order that are returned, first to last
PagePositions(n, limit, offset) ==
    LET last == IF offset + limit > n THEN n ELSE offset + limit
        count == IF last > offset THEN last - offset ELSE 0
    IN  [k \in 1..count |-> offset + k]

\* get_all_enrollments: one entry of the "enrollments" list
EnrollmentEntry(t) ==
    DictMerge([enrollment_id |-> t.id, task_id |-> t.id, status |-> t.status,
               progress |-> t.progress, message |-> t.message,
               created_at |-> IsoFormat(t.created_at),
               updated_at |-> IsoFormat(t.updated_at)],
              JsonLoads(t.data))

GetAllEnrollments(limit, offset) ==
    /\ IF limit > LimitCap \/ offset < 0   \* Query(le=1000), Query(ge=0): rejected
       THEN resp' = [op |-> "get_all_enrollments", limit |-> limit, offset |-> offset,
                     code |-> 422, body |-> [detail |-> "validation"]]
       ELSE \E ord \in CreatedDescOrders(tasks) :
              LET at == PagePositions(Len(tasks), limit, offset)
                  page == [k \in 1..Len(at) |-> EnrollmentEntry(tasks[ord[at[k]]])]
              IN  resp' = [op |-> "get_all_enrollments", limit |-> limit,
                           offset |-> offset, code |-> 200,
                           body |-> [total |-> Len(tasks), limit |-> limit,
                                     offset |-> offset, enrollments |-> page]]
    /\ UNCHANGED <<tasks, configs, now, issued, flight>>

\* db.query(Task).filter(Task.status == status).count()
CountStatus(tbl, status) == Cardinality({i \in 1..Len(tbl) : tbl[i].status = status})

GetStatistics ==
    /\ resp' = [op |-> "get_statistics", code |-> 200,
                body |-> [total_enrollments |-> Len(tasks),
                          pending |-> CountStatus(tasks, "pending"),
                          processing |-> CountStatus(tasks, "processing"),
                          completed |-> CountStatus(tasks, "completed"),
                          failed |-> CountStatus(tasks, "failed"),
                          last_updated |-> IsoFormat(now)]]
    /\ UNCHANGED <<tasks, configs, now, issued, flight>>

Next ==
    \/ Tick
    \/ \E req \in EnrollRequests : Enroll(req)
    \/ \E s \in Schools, since \in SinceArgs : GetTasks(s, since)
    \/ \E req \in ReportRequests : Report(req)
    \/ \E id \in TaskIds : GetTaskStatus(id)
    \/ \E id \in TaskIds, u \in UpdateRequests : UpdateTaskStatus(id, u)
    \/ \E limit \in PageLimits, offset \in PageOffsets : GetAllEnrollments(limit, offset)
    \/ GetStatistics

\* Requests served one at a time
Spec == Init /\ [][Next]_vars

----------------------------------------------------------------------------
(* class Config and get_config *)

\* Config.data of two records: JSON objects with different members
ConfigTexts ==
    {<<<<"rate_limits", "school">>>>,
     <<<<"notifications", "global">>, <<"rate_limits", "global">>>>}

\* Config.school_id: NULL or a school
ConfigScopes == {None} \cup {Some(s) : s \in Schools}

ConfigRows == [school_id : ConfigScopes, data : ConfigTexts]

\* the tables of at most MaxConfigs records written out of band
ConfigTables == UNION {[1..n -> ConfigRows] : n \in 0..MaxConfigs}

\* get_config: the dict returned when no record applies
BuiltinDefault ==
    [rate_limits |-> [per_task_interval_min |-> 15, jitter_percent |-> 30,
                      max_checks_per_hour |-> 20, max_checks_per_day |-> 200,
                      backoff_enabled |-> TRUE, backoff_factor |-> 2,
                      max_interval_min |-> 60],
     notifications |-> [allow_email |-> TRUE, allow_sms |-> TRUE,
                        allow_telegram |-> TRUE],
     agent |-> [heartbeat_interval_min |-> 10, update_required |-> FALSE,
                latest_version |-> "1.0.0"]]

\* db.query(Config).filter(Config.school_id == scope).first(): the position of
\* the first record of the scope, 0 if none
FirstConfig(tbl, scope) ==
    IF \E i \in 1..Len(tbl) : tbl[i].school_id = scope
    THEN CHOOSE i \in 1..Len(tbl) :
            /\ tbl[i].school_id = scope
            /\ \A j \in 1..(i - 1) : tbl[j].school_id # scope
    ELSE 0

\* Mutant of ResolveConfig: looks for the global record first
ResolveConfigGlobalFirst(tbl, school_id) ==
    LET glob == FirstConfig(tbl, None)
        cfg == IF glob # 0 THEN glob ELSE FirstConfig(tbl, Some(school_id))
    IN  IF cfg # 0 THEN JsonLoads(tbl[cfg].data) ELSE BuiltinDefault

\* get_config: the school's record, else the global one, else the default
ResolveConfig(tbl, school_id) ==
    LET own == FirstConfig(tbl, Some(school_id))
        cfg == IF own # 0 THEN own ELSE FirstConfig(tbl, None)
    IN  IF cfg # 0 THEN JsonLoads(tbl[cfg].data) ELSE BuiltinDefault

GetConfig(school_id) ==
    /\ resp' = [op |-> "get_config", school_id |-> school_id, code |-> 200,
                body |-> ResolveConfig(configs, school_id)]
    /\ UNCHANGED <<tasks, configs, now, issued, flight>>

InitConfig ==
    /\ tasks = <<>>
    /\ configs \in ConfigTables
    /\ now = 0
    /\ issued = {}
    /\ resp = [op |-> "none"]
    /\ flight = Idle

NextConfig == \E s \in Schools : GetConfig(s)

\* Config resolution over every table of config records
SpecConfig == InitConfig /\ [][NextConfig]_vars

----------------------------------------------------------------------------
(* update_task_status and report served concurrently for one task: each    *)
(* handler runs in its own thread with its own session, loads the row,     *)
(* assigns its attributes and commits; the two loads and the two commits   *)
(* interleave freely.                                                      *)

\* a handler run alone on a row: load, assign, commit
UpdateAlone(row, update, t) == Flush(row, row, UpdateAssign(row, update, t))
ReportAlone(row, req, t) == Flush(row, row, ReportAssign(row, req, t))

\* the rows one task can hold after enroll and at most two further requests
RowsAfter(rows) ==
    rows \cup {UpdateAlone(r, u, 0) : r \in rows, u \in UpdateRequests}
         \cup {ReportAlone(r, q, 0) : r \in rows, q \in ReportRequests}
RaceRows == RowsAfter(RowsAfter({NewTask(1, e, 0) : e \in EnrollRequests}))

InitRace ==
    /\ tasks \in {<<r>> : r \in RaceRows}
    /\ configs = <<>>
    /\ now = 0
    /\ issued = {1}
    /\ resp = [op |-> "none"]
    /\ flight = Idle

\* both requests arrive for the task at position i
RaceArrive(task_id, update, req) ==
    /\ flight.pc = "idle"
    /\ req.task_id = task_id
    /\ FindTask(tasks, task_id) # 0
    /\ flight' = [pc |-> "racing", pos |-> FindTask(tasks, task_id),
                  base |-> tasks[FindTask(tasks, task_id)],
                  update |-> update, report |-> req,
                  upd |-> "start", rep |-> "start",
                  updLoaded |-> <<>>, repLoaded |-> <<>>]
    /\ UNCHANGED <<tasks, configs, now, issued, resp>>

\* update_task_status: db.query(Task).filter(Task.id == task_id).first()
UpdLoad ==
    /\ flight.pc = "racing" /\ flight.upd = "start"
    /\ flight' = [flight EXCEPT !.upd = "loaded", !.updLoaded = tasks[flight.pos]]
    /\ UNCHANGED <<tasks, configs, now, issued, resp>>

\* update_task_status: the assignments and db.commit()
UpdCommit ==
    /\ flight.pc = "racing" /\ flight.upd = "loaded"
    /\ tasks' = Commit(tasks, flight.pos, flight.updLoaded,
                       UpdateAssign(flight.updLoaded, flight.update, now))
    /\ flight' = [flight EXCEPT !.upd = "done"]
    /\ resp' = [op |-> "update_task_status", task_id |-> flight.base.id,
                update |-> flight.update, code |-> 200, body |-> [status |-> "ok"]]
    /\ UNCHANGED <<configs, now, issued>>

\* report: db.query(Task).filter(Task.id == req.task_id).first()
RepLoad ==
    /\ flight.pc = "racing" /\ flight.rep = "start"
    /\ flight' = [flight EXCEPT !.rep = "loaded", !.repLoaded = tasks[flight.pos]]
    /\ UNCHANGED <<tasks, configs, now, issued, resp>>

\* report: the assignments and db.commit()
RepCommit ==
    /\ flight.pc = "racing" /\ flight.rep = "loaded"
    /\ tasks' = Commit(tasks, flight.pos, flight.repLoaded,
                       ReportAssign(flight.repLoaded, flight.report, now))
    /\ flight' = [flight EXCEPT !.rep = "done"]
    /\ resp' = [op |-> "report", req |-> flight.report, code |-> 200,
                body |-> [status |-> "ok", received |-> flight.report]]
    /\ UNCHANGED <<configs, now, issued>>

NextRace ==
    \/ Tick
    \/ \E id \in TaskIds, u \in UpdateRequests, q \in ReportRequests : RaceArrive(id, u, q)
    \/ UpdLoad
    \/ UpdCommit
    \/ RepLoad
    \/ RepCommit

\* An update and a report racing on one task
SpecRace == InitRace /\ [][NextRace]_vars

----------------------------------------------------------------------------
(* Properties *)

\* the step just taken served a request of the handler op
Served(op) == resp'.op = op /\ <<tasks, resp>>' # <<tasks, resp>>

\* the row of a table with the given id (the id is known to be present)
RowOf(tbl, task_id) == tbl[FindTask(tbl, task_id)]

\* a get_tasks response lists the task with the given id
Lists(r, task_id) == \E k \in 1..Len(r.body.tasks) : r.body.tasks[k].task_id = task_id

\* an enroll step adds exactly one row, pending with progress 10, under an id
\* that no row has and no earlier enroll returned
EnrollCreatesOne ==
    Served("enroll") =>
        /\ Len(tasks') = Len(tasks) + 1
        /\ \A i \in 1..Len(tasks) : tasks'[i] = tasks[i]
        /\ LET t == tasks'[Len(tasks')]
           IN  /\ t.status = "pending"
               /\ t.progress = 10
               /\ t.school_id = resp'.req.school_id
               /\ t.id = resp'.body.task_id
               /\ t.id \notin TaskIdsOf(tasks)
               /\ t.id \notin issued

\* C1 as stated: enroll creates exactly one pending task with progress 10 and
\* a fresh id, and every later list-tasks call for the task's school, whatever
\* its "since" argument, includes the task.
C1_AnyListingIncludes ==
    [][/\ EnrollCreatesOne
       /\ Served("get_tasks") =>
            \A i \in 1..Len(tasks') :
                tasks'[i].school_id = resp'.school_id => Lists(resp', tasks'[i].id)]_vars

\* C1 amended: enroll creates exactly one pending task with progress 10 and a
\* fresh id, and every later list-tasks call for the task's school that applies
\* no "since" filter (none given, or an empty one) includes the task.
C1_UnfilteredListingIncludes ==
    [][/\ EnrollCreatesOne
       /\ (Served("get_tasks") /\ ~Truthy(resp'.since)) =>
            \A i \in 1..Len(tasks') :
                tasks'[i].school_id = resp'.school_id => Lists(resp', tasks'[i].id)]_vars

\* C1 witness: a second task was enrolled under a new id and an unfiltered
\* listing of its school shows it, pending with progress 10
C1_Witness ==
    /\ resp.op = "get_tasks" /\ resp.since = None
    /\ Len(tasks) = 2
    /\ tasks[2].id # tasks[1].id
    /\ tasks[2].school_id = resp.school_id
    /\ \E k \in 1..Len(resp.body.tasks) :
          /\ resp.body.tasks[k].task_id = tasks[2].id
          /\ resp.body.tasks[k].status = "pending"
          /\ resp.body.tasks[k].progress = 10

\* C2 as stated: the pending, processing, completed and failed counts of a
\* statistics response sum to its total.
C2_CountsSumToTotal ==
    resp.op = "get_statistics" =>
        resp.body.pending + resp.body.processing + resp.body.completed
            + resp.body.failed = resp.body.total_enrollments

\* C3: a report with N slots for an existing task leaves it completed with
\* progress 100 and the message of N, whatever it held before; a report with
\* another N would have left another message.
C3_ReportCompletes ==
    [][(Served("report") /\ FindTask(tasks, resp'.req.task_id) # 0) =>
          LET n == Len(resp'.req.slots_found)
              after == RowOf(tasks', resp'.req.task_id)
          IN  /\ after.status = "completed"
              /\ after.progress = 100
              /\ after.message = "found " \o ToString(n) \o " slots"
              /\ \A q \in ReportRequests :
                    Len(q.slots_found) # n =>
                        after.message # ReportMessage(Len(q.slots_found))]_vars

\* C3 witness: a report with one slot was applied to a task that an update had
\* left archived at 150, and the task reads completed, 100, "found 1 slots"
C3_Witness ==
    /\ resp.op = "report" /\ Len(resp.req.slots_found) = 1
    /\ FindTask(tasks, resp.req.task_id) # 0
    /\ RowOf(tasks, resp.req.task_id).status = "completed"
    /\ RowOf(tasks, resp.req.task_id).progress = 100
    /\ RowOf(tasks, resp.req.task_id).message = ReportMessage(1)
    /\ \E i \in 1..Len(tasks) : tasks[i].status = "archived"

\* C4: a report whose task id is in no row is answered "ok" and leaves the
\* table as it was: no row added, no row changed.
C4_UnknownReportAcknowledged ==
    [][(Served("report") /\ FindTask(tasks, resp'.req.task_id) = 0) =>
          /\ resp'.code = 200
          /\ resp'.body.status = "ok"
          /\ tasks' = tasks]_vars

\* C4 witness: a report for an absent id was acknowledged while the table held a task
C4_Witness ==
    /\ resp.op = "report" /\ resp.body.status = "ok"
    /\ FindTask(tasks, resp.req.task_id) = 0
    /\ Len(tasks) >= 1

\* C5: get-task-by-id and update-task-status for an id in no row answer 404
\* and leave the table as it was.
C5_UnknownIdNotFound ==
    [][((Served("get_task_status") \/ Served("update_task_status"))
          /\ FindTask(tasks, resp'.task_id) = 0) =>
          /\ resp'.code = 404
          /\ tasks' = tasks]_vars

\* C5 witness: an update for an absent id was refused with 404 while the table held a task
C5_Witness ==
    /\ resp.op = "update_task_status" /\ resp.code = 404
    /\ FindTask(tasks, resp.task_id) = 0
    /\ Len(tasks) >= 1

\* the positions of the config records of a scope
ScopeRecords(scope) == {i \in 1..Len(configs) : configs[i].school_id = scope}

\* C6: config resolution returns the payload of a record of the school when
\* there is one, else the payload of a global record when there is one, else
\* the built-in default, and changes no stored record.
C6_ConfigResolution ==
    [][Served("get_config") =>
          LET own == ScopeRecords(Some(resp'.school_id))
              glob == ScopeRecords(None)
          IN  /\ own # {} => \E i \in own : resp'.body = JsonLoads(configs[i].data)
              /\ (own = {} /\ glob # {}) =>
                    \E i \in glob : resp'.body = JsonLoads(configs[i].data)
              /\ (own = {} /\ glob = {}) => resp'.body = BuiltinDefault
              /\ configs' = configs
              /\ tasks' = tasks]_vars

\* C6 witness: a school with a record of its own and a global record of
\* another payload got its own payload
C6_Witness ==
    /\ resp.op = "get_config"
    /\ \E i \in ScopeRecords(Some(resp.school_id)), j \in ScopeRecords(None) :
          /\ JsonLoads(configs[i].data) # JsonLoads(configs[j].data)
          /\ resp.body = JsonLoads(configs[i].data)

Min(a, b) == IF a < b THEN a ELSE b
Max(a, b) == IF a > b THEN a ELSE b

\* C7: with T tasks stored, a listing with 0 <= limit <= 1000 and offset >= 0
\* returns min(limit, max(T - offset, 0)) records and total = T.
C7_PageSize ==
    (/\ resp.op = "get_all_enrollments"
     /\ 0 <= resp.limit /\ resp.limit <= 1000 /\ resp.offset >= 0) =>
        /\ resp.code = 200
        /\ Len(resp.body.enrollments) = Min(resp.limit, Max(Len(tasks) - resp.offset, 0))
        /\ resp.body.total = Len(tasks)

\* C7 witness: limit 1000 over a table of two tasks returned both with total 2
C7_Witness ==
    /\ resp.op = "get_all_enrollments" /\ resp.code = 200
    /\ resp.limit = 1000 /\ resp.offset = 0
    /\ Len(tasks) = 2
    /\ Len(resp.body.enrollments) = 2
    /\ resp.body.total = 2

\* C8 as stated: an update of an existing task overwrites status and progress
\* with the request's values, overwrites the message if and only if the
\* request carries one, and sets updated_at to the current time.
C8_UpdateOverwrites ==
    [][(Served("update_task_status") /\ FindTask(tasks, resp'.task_id) # 0) =>
          LET before == RowOf(tasks, resp'.task_id)
              after == RowOf(tasks', resp'.task_id)
              u == resp'.update
          IN  /\ after.status = u.status
              /\ after.progress = u.progress
              /\ after.message = IF u.message # None THEN u.message[1] ELSE before.message
              /\ after.updated_at = now]_vars

\* the race is over: both handlers have committed
RaceDone == flight.pc = "racing" /\ flight.upd = "done" /\ flight.rep = "done"

\* the row the two requests leave when served one after the other
UpdateThenReport == ReportAlone(UpdateAlone(flight.base, flight.update, 0), flight.report, 0)
ReportThenUpdate == UpdateAlone(ReportAlone(flight.base, flight.report, 0), flight.update, 0)

Outcome(row) == <<row.status, row.progress, row.message>>

\* C9 as stated: after an update and a report raced on a task, its status,
\* progress and message are together those of one of the two serial orders.
C9_SerialOutcome ==
    RaceDone => Outcome(tasks[flight.pos]) \in {Outcome(UpdateThenReport),
                                               Outcome(ReportThenUpdate)}

\* C9 amended: after the race each of status, progress and message, taken on
\* its own, has the value one of the two serial orders gives it.
C9_SerialPerField ==
    RaceDone =>
        \A f \in {"status", "progress", "message"} :
            tasks[flight.pos][f] \in {UpdateThenReport[f], ReportThenUpdate[f]}

\* C9 witness: a race ended in a record that neither serial order produces
C9_Witness ==
    /\ RaceDone
    /\ Outcome(tasks[flight.pos]) \notin {Outcome(UpdateThenReport),
                                          Outcome(ReportThenUpdate)}

\* C10: no step removes a task or changes a task's id, school, payload or
\* creation time; an update or report changes no task but the one it names;
\* a query changes no task.
C10_Frame ==
    [][/\ Len(tasks') >= Len(tasks)
       /\ \A i \in 1..Len(tasks) :
             /\ tasks'[i].id = tasks[i].id
             /\ tasks'[i].school_id = tasks[i].school_id
             /\ tasks'[i].data = tasks[i].data
             /\ tasks'[i].created_at = tasks[i].created_at
       /\ Served("update_task_status") =>
             /\ Len(tasks') = Len(tasks)
             /\ \A i \in 1..Len(tasks) :
                   tasks[i].id # resp'.task_id => tasks'[i] = tasks[i]
       /\ Served("report") =>
             /\ Len(tasks') = Len(tasks)
             /\ \A i \in 1..Len(tasks) :
                   tasks[i].id # resp'.req.task_id => tasks'[i] = tasks[i]
       /\ (\/ Served("get_tasks") \/ Served("get_task_status")
           \/ Served("get_all_enrollments") \/ Served("get_statistics")) =>
             tasks' = tasks]_vars

\* C10 witness: of two tasks enrolled at time 0 one was updated at time 1 and
\* kept its creation time and payload, the other is as enrolled
C10_Witness ==
    /\ resp.op = "update_task_status" /\ resp.code = 200
    /\ Len(tasks) = 2
    /\ \E i, j \in 1..2 :
          /\ tasks[i].id = resp.task_id
          /\ tasks[i].status = "archived"
          /\ tasks[i].updated_at > tasks[i].created_at
          /\ tasks[i].data = JsonDumps(EnrollKeys, JsonLoads(tasks[i].data))
          /\ tasks[j].status = "pending"
          /\ tasks[j].updated_at = tasks[j].created_at

====
